---------------------------- MODULE Spec2Model ----------------------------
(***************************************************************************)
(* File-integrity monitor of the HIDS (file_monitor.py): the baseline scan *)
(* (scan_directory), the four watchdog handlers of FileEventHandler        *)
(* (on_created, on_modified, on_moved, on_deleted) and the history writer  *)
(* (insert_file, insert_event) over the Files and Events tables of         *)
(* database.py, all sharing the module-level sqlite3 connection/cursor.    *)
(***************************************************************************)
EXTENDS Integers, Sequences, FiniteSets, TLC

(*************************** bounds of the model ***************************)
\* A handler is dispatched only while each table has seen fewer insert attempts
\* (rows it holds plus store operations that failed) than this.
MaxRows == 3
\* At most this many store operations fail in one run.
MaxFaults == 1
\* Files fingerprinted byte by byte have at most this many bytes.
MaxLen == 3
\* Bytes one file.read() returns at most (the code reads 8192 at a time).
ChunkSize == 2
\* Signals waiting in the observer's event queue at any one time.
MaxQueue == 2

(***************************** value universe ******************************)
\* The literal string "NULL" the code stores for an absent timestamp.
Null == 0
\* What calculate_crc32_checksum returns on a file access error.
None == "None"
\* 8-digit hexadecimal fingerprints of the contents a file can have.
Hashes == {"h1", "h2"}
\* Files of the watched tree: r/a, r/b and r/s/a (r/s is a sub-directory of r).
Paths == {"r/a", "r/b", "r/s/a"}
\* Files present when the baseline scan walks the tree (r/b is created later).
ScanFiles == {"r/a", "r/s/a"}
\* Paths the notification source signals (as source or destination).
SignalPaths == {"r/a", "r/b"}
\* The root lists handed to monitor_directories: single, nested, repeated.
RootLists == {<<"r">>, <<"r", "r/s">>, <<"r/s", "r/s">>}
\* What a path turns out to be when a handler or the scan touches it:
\*   ok      readable all along
\*   denied  stat works, open() raises PermissionError
\*   gone    the path has vanished before the first access to it
\*   gonemid the path vanishes after the first access to it
Status == {"ok", "denied", "gone", "gonemid"}
\* The store operation of one invocation that raises sqlite3.Error, if any.
Fail == {"none", "select", "file", "event"}

\* os.path.basename
basename(p) == CASE p = "r/a" -> "a" [] p = "r/s/a" -> "a" [] p = "r/b" -> "b"

\* os.walk(directory): the files below a root, top-down.
walk(d) == CASE d = "r" -> <<"r/a", "r/s/a">> [] d = "r/s" -> <<"r/s/a">>

\* The nested loops of scan_directory flattened: every (root, file) visit in order.
RECURSIVE visits(_)
visits(dirs) == IF dirs = <<>> THEN <<>> ELSE walk(Head(dirs)) \o visits(Tail(dirs))

\* getpass.getuser() of the running process, and the user of an earlier session.
getuser == "u1"
OtherUser == "u0"

\* is_admin(): this process runs unelevated (the earlier session ran elevated).
is_admin == FALSE

\* A 32-bit value as its bits (index 0: the least significant): the value whose
\* set bits are S.
Word(S) == [i \in 0..31 |-> IF i \in S THEN 1 ELSE 0]

VARIABLES
    Files,            \* table Files, in file_id order
    Events,           \* table Events, in event_id order
    lastrowid,        \* cursor.lastrowid of the shared module-level cursor
    processed_files,  \* FileEventHandler.processed_files
    todo,             \* visits scan_directory has still to make
    file_details,     \* scan_directory's result list (file_path of each entry)
    pc,               \* monitor_directories: "scan", "watch", "join", "exit"
    observer,         \* the watchdog Observer thread: "unstarted", "alive", "dead",
                      \* "stopping" (stop requested, thread still running), "stopped"
    conn,             \* the module-level sqlite3 connection: "open", "closed"
    opened,           \* calculate_crc32_checksum: the path it was called with
    data,             \* calculate_crc32_checksum: the bytes of the file it opened
    offset,           \* calculate_crc32_checksum: bytes read so far
    crc,              \* calculate_crc32_checksum: its running `checksum`
    digest,           \* calculate_crc32_checksum: the string returned (<<>>: none yet)
    queue,            \* the observer's event queue: signals not yet dispatched
    running,          \* handler invocations in progress, each with its position
    faults,           \* store operations that have failed so far
    last              \* the last invocation: which operation, and how it ended

\* The state of one call of calculate_crc32_checksum, and of the dispatching of
\* handlers statement by statement.
reader == <<opened, data, offset, crc, digest>>
dispatcher == <<queue, running>>

vars == <<Files, Events, lastrowid, processed_files, todo, file_details,
          pc, observer, conn, faults, last, reader, dispatcher>>

(**************************** the history writer ***************************)
\* The store as the shared connection sees it: both tables and cursor.lastrowid.
db0 == [F |-> Files, E |-> Events, rid |-> lastrowid]

\* insert_file marking a deletion with UPDATE instead of INSERT: the rows of the
\* path get the deletion time, no row is added.
insert_file_update(db, failed, filename, filepath, creation_time, modification_time, deletion_time, checksum, user, role) ==
    IF failed THEN db
    ELSE IF deletion_time # Null
    THEN [db EXCEPT
            !.F = [i \in 1..Len(db.F) |->
                     IF db.F[i].file_path = filepath
                     THEN [db.F[i] EXCEPT !.deletion_time = deletion_time]
                     ELSE db.F[i]]]
    ELSE [db EXCEPT
            !.F = Append(db.F, [file_id           |-> Len(db.F) + 1,
                                filename          |-> filename,
                                file_path         |-> filepath,
                                creation_time     |-> creation_time,
                                modification_time |-> modification_time,
                                deletion_time     |-> deletion_time,
                                hash_value        |-> checksum,
                                user              |-> user,
                                role              |-> role]),
            !.rid = Len(db.F) + 1]

\* insert_file storing no deletion time, whatever it is handed.
insert_file_nodeletion(db, failed, filename, filepath, creation_time, modification_time, deletion_time, checksum, user, role) ==
    IF failed THEN db
    ELSE [db EXCEPT
            !.F = Append(db.F, [file_id           |-> Len(db.F) + 1,
                                filename          |-> filename,
                                file_path         |-> filepath,
                                creation_time     |-> creation_time,
                                modification_time |-> modification_time,
                                deletion_time     |-> Null,
                                hash_value        |-> checksum,
                                user              |-> user,
                                role              |-> role]),
            !.rid = Len(db.F) + 1]

\* insert_file giving the new row the greatest id in use instead of a fresh one.
insert_file_reuse(db, failed, filename, filepath, creation_time, modification_time, deletion_time, checksum, user, role) ==
    IF failed THEN db
    ELSE [db EXCEPT
            !.F = Append(db.F, [file_id           |-> IF Len(db.F) = 0 THEN 1 ELSE Len(db.F),
                                filename          |-> filename,
                                file_path         |-> filepath,
                                creation_time     |-> creation_time,
                                modification_time |-> modification_time,
                                deletion_time     |-> deletion_time,
                                hash_value        |-> checksum,
                                user              |-> user,
                                role              |-> role]),
            !.rid = IF Len(db.F) = 0 THEN 1 ELSE Len(db.F)]

\* insert_file: INSERT INTO Files + commit; on an exception, rollback and return
\* normally.  file_id is AUTOINCREMENT; a failed insert leaves lastrowid as it was.
insert_file(db, failed, filename, filepath, creation_time, modification_time, deletion_time, checksum, user, role) ==
    IF failed THEN db
    ELSE [db EXCEPT
            !.F = Append(db.F, [file_id           |-> Len(db.F) + 1,
                                filename          |-> filename,
                                file_path         |-> filepath,
                                creation_time     |-> creation_time,
                                modification_time |-> modification_time,
                                deletion_time     |-> deletion_time,
                                hash_value        |-> checksum,
                                user              |-> user,
                                role              |-> role]),
            !.rid = Len(db.F) + 1]

\* insert_event stamping the Event one tick before the time it is handed.
insert_event_early(db, failed, event_type, event_time, file_id) ==
    IF failed THEN db
    ELSE [db EXCEPT
            !.E = Append(db.E, [event_id   |-> Len(db.E) + 1,
                                event_type |-> event_type,
                                event_time |-> event_time - 1,
                                file_id    |-> file_id]),
            !.rid = Len(db.E) + 1]

\* insert_event: INSERT INTO Events + commit; on an exception, rollback and return
\* normally.  The foreign key is not enforced (no PRAGMA foreign_keys).
insert_event(db, failed, event_type, event_time, file_id) ==
    IF failed THEN db
    ELSE [db EXCEPT
            !.E = Append(db.E, [event_id   |-> Len(db.E) + 1,
                                event_type |-> event_type,
                                event_time |-> event_time,
                                file_id    |-> file_id]),
            !.rid = Len(db.E) + 1]

\* The pair with file_id read from the cursor before the Files insert.
write_pair_stale(db, fail, filename, filepath, creation_time, modification_time, deletion_time, checksum, user, role, event_type, event_time) ==
    LET db1     == insert_file(db, fail = "file", filename, filepath,
                               creation_time, modification_time, deletion_time,
                               checksum, user, role)
        file_id == db.rid
    IN  insert_event(db1, fail = "event", event_type, event_time, file_id)

\* The pair every writer issues: insert_file, file_id = cursor.lastrowid,
\* insert_event with that file_id.
write_pair(db, fail, filename, filepath, creation_time, modification_time, deletion_time, checksum, user, role, event_type, event_time) ==
    LET db1     == insert_file(db, fail = "file", filename, filepath,
                               creation_time, modification_time, deletion_time,
                               checksum, user, role)
        file_id == db1.rid
    IN  insert_event(db1, fail = "event", event_type, event_time, file_id)

\* cursor.execute("SELECT * FROM Files WHERE file_path = ?") and
\* cursor.execute("SELECT * FROM Files WHERE filename = ?"): the matching rows.
select_by_path(filepath) == {i \in 1..Len(Files) : Files[i].file_path = filepath}
select_by_name(name) == {i \in 1..Len(Files) : Files[i].filename = name}

\* A lookup that falls back to the first row of the table when nothing matches.
fetchone_first(matches) ==
    IF matches = {} THEN (IF Len(Files) > 0 THEN 1 ELSE 0)
    ELSE CHOOSE i \in matches : \A j \in matches : i <= j

\* A lookup that falls back to the newest row of the table when nothing matches.
fetchone_newest(matches) ==
    IF matches = {} THEN Len(Files)
    ELSE CHOOSE i \in matches : \A j \in matches : i <= j

\* cursor.fetchone() on a query without ORDER BY: SQLite scans the table in
\* rowid order, so the first row is the match with the least file_id (0: no row).
fetchone(matches) ==
    IF matches = {} THEN 0
    ELSE CHOOSE i \in matches : \A j \in matches : i <= j

\* role = "Admin" if is_admin() else "Standard User"
role_now == IF is_admin THEN "Admin" ELSE "Standard User"

\* calculate_crc32_checksum: the fingerprint h of the content, or None when
\* open()/read() raises FileNotFoundError or PermissionError.
calculate_crc32_checksum(readable, h) == IF readable THEN h ELSE None

\* The time an invocation reads, from datetime.now() or from the metadata of
\* the file it was signalled about: a logical clock that moves with every
\* committed row.
now == Len(Files) + Len(Events) + 1

\* Room left under the bound for one more pair.
Room == Len(Files) + faults < MaxRows /\ Len(Events) + faults < MaxRows

\* The record of an invocation.
Call(op, outcome) == [op |-> op, outcome |-> outcome]

Store(db) == Files' = db.F /\ Events' = db.E /\ lastrowid' = db.rid

\* A store operation fails only while the run has faults left.
Faulty(fail) ==
    /\ fail # "none" => faults < MaxFaults
    /\ faults' = IF fail = "none" THEN faults ELSE faults + 1

(****************************** initial state ******************************)
\* The pair an earlier session, run elevated by another user, may have left.
PriorFiles == <<[file_id |-> 1, filename |-> "a", file_path |-> "r/a",
                 creation_time |-> 1, modification_time |-> 1,
                 deletion_time |-> Null, hash_value |-> "h1",
                 user |-> OtherUser, role |-> "Admin"]>>
PriorEvents == <<[event_id |-> 1, event_type |-> <<"Scanned in directory">>,
                  event_time |-> 1, file_id |-> 1]>>

\* Metadata and content of the files the scan finds.
getctime(p) == 1
getmtime(p) == IF p = "r/a" THEN 1 ELSE 2
content(p) == IF p = "r/a" THEN "h1" ELSE "h2"

\* Module import (a fresh connection and cursor, an empty processed_files) and
\* the call monitor_directories(directories), about to start its scan.
Init ==
    /\ \E prior \in BOOLEAN :
         /\ Files = IF prior THEN PriorFiles ELSE <<>>
         /\ Events = IF prior THEN PriorEvents ELSE <<>>
    /\ lastrowid = 0
    /\ processed_files = {}
    /\ \E directories \in RootLists : todo = visits(directories)
    /\ file_details = <<>>
    /\ pc = "scan"
    /\ observer = "unstarted"
    /\ conn = "open"
    /\ opened = "r/a" /\ data = <<>> /\ offset = 0 /\ crc = Word({}) /\ digest = <<>>
    /\ queue = <<>> /\ running = <<>>
    /\ faults = 0
    /\ last = Call("init", "none")

(***************************** baseline scanner ****************************)
\* scan_directory entering every path it records into the dedup set.
scan_directory_dedup(st, fail) ==
    /\ pc = "scan"
    /\ todo # <<>>
    /\ LET filepath      == Head(todo)
           file          == basename(filepath)
           creation_time == getctime(filepath)
           modified_time == getmtime(filepath)
           checksum      == calculate_crc32_checksum(st = "ok", content(filepath))
       IN  IF st = "gone"
           THEN /\ fail = "none"
                /\ todo' = <<>>
                /\ last' = Call("scan", "raised")
                /\ UNCHANGED <<Files, Events, lastrowid, file_details, faults,
                               processed_files>>
           ELSE IF checksum = None
           THEN /\ fail = "none"
                /\ todo' = Tail(todo)
                /\ last' = Call("scan", "unreadable")
                /\ UNCHANGED <<Files, Events, lastrowid, file_details, faults,
                               processed_files>>
           ELSE /\ Faulty(fail)
                /\ Store(write_pair(db0, fail, file, filepath, creation_time,
                                    modified_time, Null, checksum, getuser,
                                    role_now, <<"Scanned in directory">>,
                                    creation_time))
                /\ file_details' = Append(file_details, filepath)
                /\ processed_files' = processed_files \cup {filepath}
                /\ todo' = Tail(todo)
                /\ last' = Call("scan", "wrote")
    /\ UNCHANGED <<pc, observer, conn, reader, dispatcher>>

\* One pass of the innermost loop of scan_directory, for the next visited file.
\* getctime/getmtime of a vanished file raise inside the try that wraps all the
\* loops, so the except clause ends the whole scan.
scan_directory(st, fail) ==
    /\ pc = "scan"
    /\ todo # <<>>
    /\ LET filepath      == Head(todo)
           file          == basename(filepath)
           creation_time == getctime(filepath)
           modified_time == getmtime(filepath)
           checksum      == calculate_crc32_checksum(st = "ok", content(filepath))
       IN  IF st = "gone"
           THEN /\ fail = "none"
                /\ todo' = <<>>
                /\ last' = Call("scan", "raised")
                /\ UNCHANGED <<Files, Events, lastrowid, file_details, faults>>
           ELSE IF checksum = None
           THEN /\ fail = "none"
                /\ todo' = Tail(todo)
                /\ last' = Call("scan", "unreadable")
                /\ UNCHANGED <<Files, Events, lastrowid, file_details, faults>>
           ELSE /\ Faulty(fail)
                /\ Store(write_pair(db0, fail, file, filepath, creation_time,
                                    modified_time, Null, checksum, getuser,
                                    role_now, <<"Scanned in directory">>,
                                    creation_time))
                /\ file_details' = Append(file_details, filepath)
                /\ todo' = Tail(todo)
                /\ last' = Call("scan", "wrote")
    /\ UNCHANGED <<processed_files, pc, observer, conn, reader, dispatcher>>

\* monitor_directories after the scan: schedule the handler on every root and
\* start the observer thread.
observer_start ==
    /\ pc = "scan"
    /\ todo = <<>>
    /\ pc' = "watch"
    /\ observer' = "alive"
    /\ UNCHANGED <<Files, Events, lastrowid, processed_files, todo,
                   file_details, conn, reader, dispatcher, faults, last>>

\* KeyboardInterrupt in the main loop: observer.stop() asks the observer thread
\* to stop and returns at once; the main thread goes on to observer.join().
interrupt ==
    /\ pc = "watch"
    /\ pc' = "join"
    /\ observer' = IF observer = "alive" THEN "stopping" ELSE observer
    /\ last' = Call("stop", "none")
    /\ UNCHANGED <<Files, Events, lastrowid, processed_files, todo,
                   file_details, conn, reader, dispatcher, faults>>

\* The observer thread, idle when the stop request came, leaves its loop.
observer_exit ==
    /\ observer = "stopping"
    /\ observer' = "stopped"
    /\ UNCHANGED <<Files, Events, lastrowid, processed_files, todo,
                   file_details, pc, conn, reader, dispatcher, faults, last>>

\* observer.join() returning at once, without waiting for the thread.
observer_join_nowait ==
    /\ pc = "join"
    /\ pc' = "exit"
    /\ UNCHANGED <<Files, Events, lastrowid, processed_files, todo,
                   file_details, observer, conn, reader, dispatcher, faults, last>>

\* observer.join() returns once the observer thread has ended, and with it
\* monitor_directories.  Nothing closes the module-level connection.
observer_join ==
    /\ pc = "join"
    /\ observer \in {"stopped", "dead"}
    /\ pc' = "exit"
    /\ UNCHANGED <<Files, Events, lastrowid, processed_files, todo,
                   file_details, observer, conn, reader, dispatcher, faults, last>>

(****************************** change watcher *****************************)
\* A handler dispatched although the observer was never started.
Dispatching_unstarted == Room

\* The observer thread dispatches one event at a time and has no handler for an
\* exception that escapes on_*: the thread ends and nothing is dispatched again.
\* A handler in flight when the stop request comes runs to its end, and the
\* thread leaves its loop after it.
Dispatching == observer \in {"alive", "stopping"} /\ Room

\* The observer thread after a handler that ended with `outcome`.
after_handler(outcome) ==
    IF outcome = "raised" THEN "dead"
    ELSE IF observer = "stopping" THEN "stopped"
    ELSE observer

\* The handler wrote nothing and ended with `outcome`; no store operation was
\* reached, or (fail = "select") its lookup raised.
Discard(op, outcome, fail) ==
    /\ last' = Call(op, outcome)
    /\ observer' = after_handler(outcome)
    /\ Faulty(fail)
    /\ UNCHANGED <<Files, Events, lastrowid>>

\* The handler issued its pair of inserts.
Write(op, fail, db) ==
    /\ last' = Call(op, "wrote")
    /\ observer' = after_handler("wrote")
    /\ Faulty(fail)
    /\ Store(db)

\* on_created without its dedup guard.
already_processed_never(filepath) == FALSE

\* The dedup guard of on_created.
already_processed(filepath) == filepath \in processed_files

on_created(is_directory, filepath, st, h, fail) ==
    /\ Dispatching
    /\ fail # "select"
    /\ UNCHANGED <<todo, file_details, pc, conn, reader, dispatcher>>
    /\ LET filename      == basename(filepath)
           creation_time == now
           checksum      == calculate_crc32_checksum(st = "ok", h)
       IN  IF is_directory
           THEN Discard("created", "directory", "none") /\ UNCHANGED processed_files
           ELSE IF already_processed(filepath)
           THEN Discard("created", "duplicate", "none") /\ UNCHANGED processed_files
           ELSE /\ processed_files' = processed_files \cup {filepath}
                /\ IF st = "gone" THEN Discard("created", "raised", "none")
                   ELSE IF checksum = None THEN Discard("created", "unreadable", "none")
                   ELSE Write("created", fail,
                              write_pair(db0, fail, filename, filepath,
                                         creation_time, Null, Null, checksum,
                                         getuser, role_now,
                                         <<"Creation">>, creation_time))

\* on_modified suppressing a signal whose fingerprint equals the stored one.
on_modified_changed(is_directory, filepath, st, h, fail) ==
    /\ Dispatching
    /\ UNCHANGED <<processed_files, todo, file_details, pc, conn, reader, dispatcher>>
    /\ LET filename      == basename(filepath)
           checksum      == calculate_crc32_checksum(st \in {"ok", "gonemid"}, h)
           modified_time == now
           result        == fetchone(select_by_path(filepath))
       IN  IF is_directory THEN Discard("modified", "directory", "none")
           ELSE IF checksum = None THEN Discard("modified", "unreadable", "none")
           ELSE IF st = "gonemid" THEN Discard("modified", "raised", "none")
           ELSE IF fail = "select" THEN Discard("modified", "raised", fail)
           ELSE IF result = 0 THEN Discard("modified", "miss", "none")
           ELSE IF Files[result].hash_value = checksum
           THEN Discard("modified", "unchanged", "none")
           ELSE Write("modified", fail,
                      write_pair(db0, fail, filename, filepath,
                                 Files[result].creation_time, modified_time,
                                 Null, checksum, getuser, role_now,
                                 <<"Modified">>, modified_time))

on_modified(is_directory, filepath, st, h, fail) ==
    /\ Dispatching
    /\ UNCHANGED <<processed_files, todo, file_details, pc, conn, reader, dispatcher>>
    /\ LET filename      == basename(filepath)
           checksum      == calculate_crc32_checksum(st \in {"ok", "gonemid"}, h)
           modified_time == now
           result        == fetchone(select_by_path(filepath))
       IN  IF is_directory THEN Discard("modified", "directory", "none")
           ELSE IF checksum = None THEN Discard("modified", "unreadable", "none")
           ELSE IF st = "gonemid" THEN Discard("modified", "raised", "none")
           ELSE IF fail = "select" THEN Discard("modified", "raised", fail)
           ELSE IF result = 0 THEN Discard("modified", "miss", "none")
           ELSE Write("modified", fail,
                      write_pair(db0, fail, filename, filepath,
                                 Files[result].creation_time, modified_time,
                                 Null, checksum, getuser, role_now,
                                 <<"Modified">>, modified_time))

on_moved(is_directory, src_path, new_path, st, h, fail) ==
    /\ Dispatching
    /\ src_path # new_path
    /\ UNCHANGED <<processed_files, todo, file_details, pc, conn, reader, dispatcher>>
    /\ LET checksum      == calculate_crc32_checksum(st \in {"ok", "gonemid"}, h)
           modified_time == now
           old_name      == basename(src_path)
           new_name      == basename(new_path)
           result        == fetchone(select_by_name(old_name))
       IN  IF is_directory THEN Discard("moved", "directory", "none")
           ELSE IF checksum = None THEN Discard("moved", "unreadable", "none")
           ELSE IF st = "gonemid" THEN Discard("moved", "raised", "none")
           ELSE IF fail = "select" THEN Discard("moved", "raised", fail)
           ELSE IF result = 0 THEN Discard("moved", "miss", "none")
           ELSE Write("moved", fail,
                      write_pair(db0, fail, new_name, new_path,
                                 Files[result].creation_time, modified_time,
                                 Null, Files[result].hash_value,
                                 Files[result].user, Files[result].role,
                                 <<"Renamed from", old_name, "to", new_name>>,
                                 modified_time))

\* on_deleted without its test of event.is_directory.
on_deleted_any(is_directory, filepath, fail) ==
    /\ Dispatching
    /\ UNCHANGED <<processed_files, todo, file_details, pc, conn, reader, dispatcher>>
    /\ LET filename      == basename(filepath)
           deletion_time == now
           result        == fetchone(select_by_path(filepath))
       IN  IF fail = "select" THEN Discard("deleted", "raised", fail)
           ELSE IF result = 0 THEN Discard("deleted", "miss", "none")
           ELSE Write("deleted", fail,
                      write_pair(db0, fail, filename, filepath,
                                 Files[result].creation_time,
                                 Files[result].modification_time,
                                 deletion_time, Files[result].hash_value,
                                 getuser, Files[result].role,
                                 <<"Deletion">>, deletion_time))

\* on_deleted dropping the deleted path from the dedup set.
on_deleted_forget(is_directory, filepath, fail) ==
    /\ Dispatching
    /\ processed_files' = IF is_directory THEN processed_files
                          ELSE processed_files \ {filepath}
    /\ UNCHANGED <<todo, file_details, pc, conn, reader, dispatcher>>
    /\ LET filename      == basename(filepath)
           deletion_time == now
           result        == fetchone(select_by_path(filepath))
       IN  IF is_directory THEN Discard("deleted", "directory", "none")
           ELSE IF fail = "select" THEN Discard("deleted", "raised", fail)
           ELSE IF result = 0 THEN Discard("deleted", "miss", "none")
           ELSE Write("deleted", fail,
                      write_pair(db0, fail, filename, filepath,
                                 Files[result].creation_time,
                                 Files[result].modification_time,
                                 deletion_time, Files[result].hash_value,
                                 getuser, Files[result].role,
                                 <<"Deletion">>, deletion_time))

\* on_deleted ignoring a path whose record is already marked deleted.
on_deleted_once(is_directory, filepath, fail) ==
    /\ Dispatching
    /\ UNCHANGED <<processed_files, todo, file_details, pc, conn, reader, dispatcher>>
    /\ LET filename      == basename(filepath)
           deletion_time == now
           result        == fetchone(select_by_path(filepath))
       IN  IF is_directory THEN Discard("deleted", "directory", "none")
           ELSE IF fail = "select" THEN Discard("deleted", "raised", fail)
           ELSE IF result = 0 THEN Discard("deleted", "miss", "none")
           ELSE IF \E i \in select_by_path(filepath) : Files[i].deletion_time # Null
           THEN Discard("deleted", "duplicate", "none")
           ELSE Write("deleted", fail,
                      write_pair(db0, fail, filename, filepath,
                                 Files[result].creation_time,
                                 Files[result].modification_time,
                                 deletion_time, Files[result].hash_value,
                                 getuser, Files[result].role,
                                 <<"Deletion">>, deletion_time))

on_deleted(is_directory, filepath, fail) ==
    /\ Dispatching
    /\ UNCHANGED <<processed_files, todo, file_details, pc, conn, reader, dispatcher>>
    /\ LET filename      == basename(filepath)
           deletion_time == now
           result        == fetchone(select_by_path(filepath))
       IN  IF is_directory THEN Discard("deleted", "directory", "none")
           ELSE IF fail = "select" THEN Discard("deleted", "raised", fail)
           ELSE IF result = 0 THEN Discard("deleted", "miss", "none")
           ELSE Write("deleted", fail,
                      write_pair(db0, fail, filename, filepath,
                                 Files[result].creation_time,
                                 Files[result].modification_time,
                                 deletion_time, Files[result].hash_value,
                                 getuser, Files[result].role,
                                 <<"Deletion">>, deletion_time))

(****************************** specification ******************************)
\* The signals the notification source delivers.  An input the handler never
\* looks at is given one value: a directory signal carries no file state, and a
\* failing store operation is drawn only for a path that is read successfully.
Signal(d, p, st, h, fail) ==
    /\ d => p = "r/a"
    /\ (d \/ st # "ok") => (h = "h1" /\ fail = "none")
    /\ d => st = "ok"

Next ==
    \/ \E st \in Status \ {"gonemid"}, fail \in Fail \ {"select"} :
          scan_directory(st, fail)
    \/ observer_start
    \/ interrupt
    \/ observer_exit
    \/ observer_join
    \/ \E d \in BOOLEAN, p \in SignalPaths, st \in Status, h \in Hashes, fail \in Fail :
          Signal(d, p, st, h, fail) /\ on_created(d, p, st, h, fail)
    \/ \E d \in BOOLEAN, p \in SignalPaths, st \in Status, h \in Hashes, fail \in Fail :
          Signal(d, p, st, h, fail) /\ on_modified(d, p, st, h, fail)
    \/ \E d \in BOOLEAN, p \in SignalPaths, q \in SignalPaths, st \in Status,
          h \in Hashes, fail \in Fail :
          Signal(d, p, st, h, fail) /\ on_moved(d, p, q, st, h, fail)
    \/ \E d \in BOOLEAN, p \in SignalPaths, fail \in Fail :
          (d => p = "r/a" /\ fail = "none") /\ on_deleted(d, p, fail)

Spec == Init /\ [][Next]_vars

(**************************** fingerprint engine ***************************)
\* calculate_crc32_checksum statement by statement, on the bytes of the file.
\* Byte values a file is made of, and the contents of at most MaxLen bytes.
Bytes == {0, 97, 255}
Contents == UNION {[1..n -> Bytes] : n \in 0..MaxLen}

\* Operations on 32-bit values.
ByteWord(b) == [i \in 0..31 |-> IF i < 8 THEN (b \div 2^i) % 2 ELSE 0]
Xor(a, b) == [i \in 0..31 |-> (a[i] + b[i]) % 2]
And(a, b) == [i \in 0..31 |-> a[i] * b[i]]
ShiftRight(c) == [i \in 0..31 |-> IF i = 31 THEN 0 ELSE c[i + 1]]

\* zlib's CRC-32: the reflected polynomial 0xEDB88320, and 0xFFFFFFFF.
Poly == Word({5, 8, 9, 15, 19, 20, 21, 23, 24, 26, 27, 29, 30, 31})
Mask32 == Word(0..31)

\* k steps of the bitwise CRC register.
RECURSIVE shift(_, _)
shift(c, k) ==
    IF k = 0 THEN c
    ELSE shift(IF c[0] = 1 THEN Xor(ShiftRight(c), Poly) ELSE ShiftRight(c), k - 1)

\* The register after the bytes of a chunk.
RECURSIVE update(_, _)
update(c, chunk) ==
    IF chunk = <<>> THEN c
    ELSE update(shift(Xor(c, ByteWord(Head(chunk))), 8), Tail(chunk))

\* zlib.crc32 forgetting the running value it is handed.
crc32_restart(chunk, value) == Xor(update(Mask32, chunk), Mask32)

\* zlib.crc32(chunk, value): the CRC of chunk continued from the running value.
crc32(chunk, value) == Xor(update(Xor(value, Mask32), chunk), Mask32)

\* format(n, '08x'): hexadecimal, zero-padded to 8 digits (digits as 0..15).
format_08x(n) ==
    [i \in 1..8 |-> LET k == 4 * (8 - i)
                    IN  n[k] + 2 * n[k + 1] + 4 * n[k + 2] + 8 * n[k + 3]]

\* A call calculate_crc32_checksum(opened) on a file holding `data`; the
\* monitor itself is left out of this specification.
InitChecksum ==
    /\ Files = <<>> /\ Events = <<>> /\ lastrowid = 0
    /\ processed_files = {} /\ todo = <<>> /\ file_details = <<>>
    /\ pc = "scan" /\ observer = "unstarted" /\ conn = "open"
    /\ faults = 0 /\ last = Call("init", "none")
    /\ queue = <<>> /\ running = <<>>
    /\ opened \in Paths
    /\ data \in Contents
    /\ offset = 0
    /\ crc = Word({})
    /\ digest = <<>>

\* One pass of `while chunk := file.read(8192)`: read() returns between one
\* byte and a full chunk of what is left, and the chunk is folded into checksum.
read_chunk(n) ==
    /\ digest = <<>>
    /\ offset < Len(data)
    /\ n <= Len(data) - offset
    /\ crc' = crc32(SubSeq(data, offset + 1, offset + n), crc)
    /\ offset' = offset + n
    /\ UNCHANGED <<Files, Events, lastrowid, processed_files, todo, file_details,
                   pc, observer, conn, faults, last, opened, data, digest, dispatcher>>

\* read() returns b'' at the end of the file: the loop ends and the function
\* returns format(checksum & 0xFFFFFFFF, '08x').
return_checksum ==
    /\ digest = <<>>
    /\ offset = Len(data)
    /\ digest' = format_08x(And(crc, Mask32))
    /\ UNCHANGED <<Files, Events, lastrowid, processed_files, todo, file_details,
                   pc, observer, conn, faults, last, opened, data, offset, crc,
                   dispatcher>>

NextChecksum ==
    \/ \E n \in 1..ChunkSize : read_chunk(n)
    \/ return_checksum

SpecChecksum == InitChecksum /\ [][NextChecksum]_vars

(************************ dispatching, step by step ************************)
\* on_created, on_modified and on_deleted statement by statement, as the
\* observer thread runs them on the shared module-level cursor: dedup guard or
\* lookup, insert_file, file_id = cursor.lastrowid, insert_event.
Signals == [op : {"created", "modified", "deleted"}, path : SignalPaths]

Remove(seq, k) == SubSeq(seq, 1, k - 1) \o SubSeq(seq, k + 1, Len(seq))

\* The watcher after a scan that recorded r/a, the observer started.
InitDispatch ==
    /\ Files = PriorFiles /\ Events = PriorEvents /\ lastrowid = 1
    /\ processed_files = {} /\ todo = <<>> /\ file_details = <<"r/a">>
    /\ pc = "watch" /\ observer = "alive" /\ conn = "open"
    /\ faults = 0 /\ last = Call("scan", "wrote")
    /\ opened = "r/a" /\ data = <<>> /\ offset = 0 /\ crc = Word({}) /\ digest = <<>>
    /\ queue = <<>>
    /\ running = <<>>

\* An emitter thread puts a signal on the observer's event queue.
notify(sig) ==
    /\ Len(queue) < MaxQueue
    /\ Len(Files) + Len(queue) + Len(running) < MaxRows
    /\ queue' = Append(queue, sig)
    /\ UNCHANGED <<Files, Events, lastrowid, processed_files, todo, file_details,
                   pc, observer, conn, faults, last, reader, running>>

\* The invocation of a handler for a signal, at its first statement.
Invocation(sig) ==
    [op |-> sig.op, path |-> sig.path,
     at |-> IF sig.op = "created" THEN "guard" ELSE "lookup", time |-> now,
     result |-> 0, row |-> 0, file_id |-> 0]

\* A dispatcher that hands every signal to a thread of its own.
dispatch_concurrent ==
    /\ queue # <<>>
    /\ running' = Append(running, Invocation(Head(queue)))
    /\ queue' = Tail(queue)
    /\ UNCHANGED <<Files, Events, lastrowid, processed_files, todo, file_details,
                   pc, observer, conn, faults, last, reader>>

\* The one Observer thread takes the next signal off its queue only when the
\* handler it called for the previous one has returned.
dispatch ==
    /\ queue # <<>>
    /\ running = <<>>
    /\ running' = Append(running, Invocation(Head(queue)))
    /\ queue' = Tail(queue)
    /\ UNCHANGED <<Files, Events, lastrowid, processed_files, todo, file_details,
                   pc, observer, conn, faults, last, reader>>

\* on_created: a path already in processed_files makes the handler return,
\* any other is added to it.
handler_guard(k) ==
    /\ running[k].at = "guard"
    /\ IF already_processed(running[k].path)
       THEN /\ running' = Remove(running, k)
            /\ UNCHANGED processed_files
       ELSE /\ running' = [running EXCEPT ![k].at = "insert_file"]
            /\ processed_files' = processed_files \cup {running[k].path}
    /\ UNCHANGED <<Files, Events, lastrowid, todo, file_details,
                   pc, observer, conn, faults, last, reader, queue>>

\* cursor.execute("SELECT ... WHERE file_path = ?"); result := cursor.fetchone():
\* without a row the handler returns.
handler_lookup(k) ==
    /\ running[k].at = "lookup"
    /\ LET result == fetchone(select_by_path(running[k].path))
       IN  running' = IF result = 0 THEN Remove(running, k)
                      ELSE [running EXCEPT ![k].at = "insert_file",
                                           ![k].result = result]
    /\ UNCHANGED <<Files, Events, lastrowid, processed_files, todo, file_details,
                   pc, observer, conn, faults, last, reader, queue>>

\* insert_file(...) of on_created, on_modified or on_deleted.
handler_insert_file(k) ==
    /\ running[k].at = "insert_file"
    /\ LET inv == running[k]
           rec == Files[inv.result]
       IN  Store(IF inv.op = "created"
                 THEN insert_file(db0, FALSE, basename(inv.path), inv.path,
                                  inv.time, Null, Null, "h1", getuser, role_now)
                 ELSE IF inv.op = "modified"
                 THEN insert_file(db0, FALSE, basename(inv.path), inv.path,
                                  rec.creation_time, inv.time, Null, "h2",
                                  getuser, role_now)
                 ELSE insert_file(db0, FALSE, basename(inv.path), inv.path,
                                  rec.creation_time, rec.modification_time,
                                  inv.time, rec.hash_value, getuser, rec.role))
    /\ running' = [running EXCEPT ![k].at = "lastrowid", ![k].row = Len(Files) + 1]
    /\ UNCHANGED <<processed_files, todo, file_details, pc, observer, conn,
                   faults, last, reader, queue>>

\* file_id = cursor.lastrowid
handler_lastrowid(k) ==
    /\ running[k].at = "lastrowid"
    /\ running' = [running EXCEPT ![k].at = "insert_event", ![k].file_id = lastrowid]
    /\ UNCHANGED <<Files, Events, lastrowid, processed_files, todo, file_details,
                   pc, observer, conn, faults, last, reader, queue>>

\* insert_event(...), after which the handler returns.
handler_insert_event(k) ==
    /\ running[k].at = "insert_event"
    /\ LET inv == running[k]
       IN  Store(insert_event(db0, FALSE,
                              CASE inv.op = "created" -> <<"Creation">>
                                [] inv.op = "modified" -> <<"Modified">>
                                [] inv.op = "deleted" -> <<"Deletion">>,
                              inv.time, inv.file_id))
    /\ running' = Remove(running, k)
    /\ UNCHANGED <<processed_files, todo, file_details, pc, observer, conn,
                   faults, last, reader, queue>>

NextDispatch ==
    \/ \E sig \in Signals : notify(sig)
    \/ dispatch
    \/ \E k \in 1..Len(running) : handler_guard(k)
    \/ \E k \in 1..Len(running) : handler_lookup(k)
    \/ \E k \in 1..Len(running) : handler_insert_file(k)
    \/ \E k \in 1..Len(running) : handler_lastrowid(k)
    \/ \E k \in 1..Len(running) : handler_insert_event(k)

SpecDispatch == InitDispatch /\ [][NextDispatch]_vars

(********************************* claims **********************************)
Max(S) == CHOOSE i \in S : \A j \in S : j <= i

\* Rows of on_created: neither a modification nor a deletion time.
CreationRows(p) ==
    {i \in 1..Len(Files) : /\ Files[i].file_path = p
                           /\ Files[i].modification_time = Null
                           /\ Files[i].deletion_time = Null}
EventsOfType(t) == {e \in 1..Len(Events) : Events[e].event_type = t}
EventsOn(i) == {e \in 1..Len(Events) : Events[e].file_id = i}

\* C1: within a session, the first Created signal for a readable, non-directory
\* path writes exactly one Files row and one Creation Event referencing it (when
\* the store does not fail), and every later Created signal for that path
\* writes nothing; so no path ever has more than one Creation row.
C1_DedupIdempotent ==
    /\ [](\A p \in Paths : Cardinality(CreationRows(p)) <= 1)
    /\ [][last'.op = "created" =>
          \A p \in SignalPaths, st \in Status, h \in Hashes, fail \in Fail :
            on_created(FALSE, p, st, h, fail) =>
              /\ p \in processed_files => (Files' = Files /\ Events' = Events)
              /\ (p \notin processed_files /\ st = "ok" /\ fail = "none") =>
                   /\ Len(Files') = Len(Files) + 1
                   /\ Files'[Len(Files')].file_path = p
                   /\ Len(Events') = Len(Events) + 1
                   /\ Events'[Len(Events')].event_type = <<"Creation">>
                   /\ Events'[Len(Events')].file_id = Files'[Len(Files')].file_id
         ]_vars

\* C1 witness: a second Created signal was discarded by the guard while its
\* path holds the one pair the first signal wrote.
C1_Witness ==
    /\ last = Call("created", "duplicate")
    /\ \E p \in processed_files :
         /\ Cardinality(CreationRows(p)) = 1
         /\ \A i \in CreationRows(p) :
              Cardinality(EventsOn(i) \cap EventsOfType(<<"Creation">>)) = 1

\* C2: no step updates or removes a row of Files or of Events: both tables only
\* grow at the end, every earlier row keeping its values.
C2_AppendOnly ==
    [][/\ Len(Files') >= Len(Files)
       /\ SubSeq(Files', 1, Len(Files)) = Files
       /\ Len(Events') >= Len(Events)
       /\ SubSeq(Events', 1, Len(Events)) = Events]_vars

\* C2 witness: on_deleted has written a row with a deletion time for a path
\* whose earlier row still has none.
C2_Witness ==
    /\ last = Call("deleted", "wrote")
    /\ \E i, j \in 1..Len(Files) :
         /\ i < j
         /\ Files[i].file_path = Files[j].file_path
         /\ Files[i].deletion_time = Null
         /\ Files[j].deletion_time # Null

\* C3: after every scan step and every handler, each Files row is referenced by
\* exactly one Events row and each Events row references an existing Files row,
\* also in runs in which an insert fails.
C3_OneToOne ==
    /\ \A i \in 1..Len(Files) : Cardinality(EventsOn(Files[i].file_id)) = 1
    /\ \A e \in 1..Len(Events) :
         \E i \in 1..Len(Files) : Files[i].file_id = Events[e].file_id

\* C4: a step whose Files insert fails commits no Events row (so no Event gets
\* the id a previous insert left in cursor.lastrowid).
C4_NoEventWithoutFile ==
    [][Len(Files') = Len(Files) => Len(Events') = Len(Events)]_vars

\* C5: a step in which a store operation fails (lookup query, Files insert or
\* Events insert) ends normally: no exception leaves the handler or the scan
\* loop, and the observer thread stays alive for the next signal.
C5_StorageFailureSurvived ==
    [][faults' > faults => (last'.outcome # "raised" /\ observer' # "dead")]_vars

\* Rows the scan of this session wrote for path p: referenced by a Scanned Event.
ScannedRows(p) ==
    {i \in 1..Len(Files) :
        /\ Files[i].file_path = p
        /\ Files[i].user = getuser
        /\ EventsOn(Files[i].file_id) \cap EventsOfType(<<"Scanned in directory">>) # {}}

\* C6: once the scan is over (here: in a run without store failure), every file
\* it fingerprinted has exactly one Scanned row and no file has more than one,
\* whatever the list of roots.
C6_BaselineExactlyOnce ==
    (pc # "scan" /\ faults = 0) =>
        \A p \in Paths :
            /\ Cardinality(ScannedRows(p)) <= 1
            /\ (\E k \in 1..Len(file_details) : file_details[k] = p) =>
                   Cardinality(ScannedRows(p)) = 1

\* C7: MovedTo(src, dst) for a tracked file, the only file with its basename,
\* whose stored hash (that of its current record, the one with the greatest
\* file_id) is H: one new Files row with the new name and path, content_hash H,
\* user and role of that record, and one Renamed Event referencing the new row.
C7_RenameCarriesStoredHash ==
    [][\A p \in SignalPaths, q \in SignalPaths, h \in Hashes :
         (/\ on_moved(FALSE, p, q, "ok", h, "none")
          /\ select_by_path(p) # {}
          /\ select_by_name(basename(p)) = select_by_path(p)) =>
            LET cur == Files[Max(select_by_path(p))]
                new == Files'[Len(Files')]
            IN  /\ Len(Files') = Len(Files) + 1
                /\ new.filename = basename(q)
                /\ new.file_path = q
                /\ new.hash_value = cur.hash_value
                /\ new.user = cur.user
                /\ new.role = cur.role
                /\ Len(Events') = Len(Events) + 1
                /\ Events'[Len(Events')].event_type =
                       <<"Renamed from", basename(p), "to", basename(q)>>
                /\ Events'[Len(Events')].file_id = new.file_id
      ]_vars

\* C8: when several Files rows share the basename of old_path, on_moved carries
\* forward the fields of the one with the greatest file_id.
C8_RenameMatchesLatest ==
    [][\A p \in SignalPaths, q \in SignalPaths, h \in Hashes, fail \in {"none", "event"} :
         (/\ on_moved(FALSE, p, q, "ok", h, fail)
          /\ select_by_name(basename(p)) # {}) =>
            LET latest == Files[Max(select_by_name(basename(p)))]
                new    == Files'[Len(Files')]
            IN  /\ Len(Files') = Len(Files) + 1
                /\ new.creation_time = latest.creation_time
                /\ new.hash_value = latest.hash_value
                /\ new.user = latest.user
                /\ new.role = latest.role
      ]_vars

\* C9: the record on_modified and on_deleted take as the current one of a path is
\* its row with the greatest file_id: the row they write carries that row's
\* fields (creation_time; for a deletion also modification_time, hash and role).
C9_CurrentIsLatest ==
    [][\A p \in SignalPaths, h \in Hashes, fail \in {"none", "event"} :
         LET latest == Files[Max(select_by_path(p))]
             new    == Files'[Len(Files')]
         IN  /\ (on_modified(FALSE, p, "ok", h, fail) /\ select_by_path(p) # {}) =>
                   /\ Len(Files') = Len(Files) + 1
                   /\ new.creation_time = latest.creation_time
             /\ (on_deleted(FALSE, p, fail) /\ select_by_path(p) # {}) =>
                   /\ Len(Files') = Len(Files) + 1
                   /\ new.creation_time = latest.creation_time
                   /\ new.modification_time = latest.modification_time
                   /\ new.hash_value = latest.hash_value
                   /\ new.role = latest.role
      ]_vars

\* C10: a Modified signal for a readable path without a Files row writes one new
\* Files row for that path and one Event referencing it.
C10_ModifiedUntrackedRecorded ==
    [][\A p \in SignalPaths, h \in Hashes :
         (on_modified(FALSE, p, "ok", h, "none") /\ select_by_path(p) = {}) =>
            /\ Len(Files') = Len(Files) + 1
            /\ Files'[Len(Files')].file_path = p
            /\ Len(Events') = Len(Events) + 1
            /\ Events'[Len(Events')].file_id = Files'[Len(Files')].file_id
      ]_vars

\* C11: a Modified signal for a readable path that has a Files row writes exactly
\* one new row for the path, with the newly computed hash, a modification time,
\* and the creation_time of the path's current record (its row with the greatest
\* file_id), plus one Modified Event whose file_id is the new row.
C11_ModifiedCarriesCreationTime ==
    [][\A p \in SignalPaths, h \in Hashes :
         (on_modified(FALSE, p, "ok", h, "none") /\ select_by_path(p) # {}) =>
            LET cur == Files[Max(select_by_path(p))]
                new == Files'[Len(Files')]
            IN  /\ Len(Files') = Len(Files) + 1
                /\ new.file_path = p
                /\ new.hash_value = h
                /\ new.modification_time # Null
                /\ new.creation_time = cur.creation_time
                /\ Len(Events') = Len(Events) + 1
                /\ Events'[Len(Events')].event_type = <<"Modified">>
                /\ Events'[Len(Events')].file_id = new.file_id
      ]_vars

\* C12: a Deleted signal for a tracked path writes one new Files row that equals
\* a matched row of the path in every field but file_id and deletion_time
\* (filename, path, creation and modification time, hash, user and role are
\* carried forward), with deletion_time set, and one Deletion Event on the new row.
C12_DeletedCarriesAllFields ==
    [][\A p \in SignalPaths :
         (on_deleted(FALSE, p, "none") /\ select_by_path(p) # {}) =>
            LET new == Files'[Len(Files')]
            IN  /\ Len(Files') = Len(Files) + 1
                /\ new.deletion_time # Null
                /\ \E i \in select_by_path(p) :
                      new = [Files[i] EXCEPT !.file_id = new.file_id,
                                             !.deletion_time = new.deletion_time]
                /\ Len(Events') = Len(Events) + 1
                /\ Events'[Len(Events')].event_type = <<"Deletion">>
                /\ Events'[Len(Events')].file_id = new.file_id
      ]_vars

\* C13: a Deleted signal for a path without a Files row leaves the store as it
\* is: no new Files row and no new Events row.
C13_DeletedUntrackedNoop ==
    [][last'.op = "deleted" =>
       \A p \in SignalPaths, fail \in Fail :
         (on_deleted(FALSE, p, fail) /\ select_by_path(p) = {}) =>
            (Files' = Files /\ Events' = Events)
      ]_vars

\* C13 witness: on_deleted found no row for its path, in a store that holds rows
\* of another path.
C13_Witness ==
    /\ last = Call("deleted", "miss")
    /\ Files # <<>>
    /\ \E p \in SignalPaths : select_by_path(p) = {}

\* C14: in on_created, on_modified and on_moved a path that is unreadable or
\* vanishes at any point of the handler (also at the read of its timestamp) has
\* its signal discarded: no row is written, no exception leaves the handler and
\* the observer thread goes on.
C14_UnreadableDiscarded ==
    [][\A p \in SignalPaths, q \in SignalPaths, st \in Status \ {"ok"}, h \in Hashes :
         (\/ on_created(FALSE, p, st, h, "none")
          \/ on_modified(FALSE, p, st, h, "none")
          \/ on_moved(FALSE, p, q, st, h, "none")) =>
            /\ Files' = Files
            /\ Events' = Events
            /\ last'.outcome # "raised"
            /\ observer' # "dead"
      ]_vars

\* C15: in scan_directory a file that cannot be read, or whose metadata cannot
\* be obtained, is skipped alone: no row is written for it and the scan goes on
\* with the file enumerated after it.
C15_ScanSkipsFileAlone ==
    [][\A st \in Status \ {"ok"} :
         scan_directory(st, "none") =>
            /\ Files' = Files
            /\ Events' = Events
            /\ todo' = Tail(todo)
      ]_vars

\* C16: every path in processed_files is a path for which a Created signal of
\* this session has written its Files row and Creation Event.
C16_ProcessedMeansRecorded ==
    \A p \in processed_files :
        \E i \in CreationRows(p) :
            /\ Files[i].user = getuser
            /\ EventsOn(Files[i].file_id) \cap EventsOfType(<<"Creation">>) # {}

\* C17: the watcher subscription is registered before the baseline scan starts:
\* no file is scanned while the observer has not been started, so a change made
\* after a file's visit is delivered to a handler.
C17_SubscribedBeforeScan ==
    [][\A st \in Status, fail \in Fail :
         scan_directory(st, fail) => observer # "unstarted"
      ]_vars

\* C18: the baseline scan runs to completion before any handler runs: while
\* monitor_directories is in its scan no handler has been invoked, the scan is
\* never entered again, and every row written later gets a file_id greater than
\* that of every row present, so Scanned rows precede the rows of handlers.
C18_ScanBeforeHandlers ==
    /\ [](pc = "scan" => last.op \in {"init", "scan"})
    /\ [][pc' = "scan" => pc = "scan"]_vars
    /\ [][Files' # Files =>
            /\ Len(Files') = Len(Files) + 1
            /\ \A i \in 1..Len(Files) : Files[i].file_id < Files'[Len(Files')].file_id
         ]_vars

\* C18 witness: a handler has written a row after the scan recorded its files.
C18_Witness ==
    /\ pc = "watch"
    /\ last = Call("modified", "wrote")
    /\ Len(file_details) > 0
    /\ Files[Len(Files)].modification_time = now - 2

\* C19: when monitor_directories has returned after an interrupt, the store
\* connection has been closed.
C19_ConnectionClosedAtExit == pc = "exit" => conn = "closed"

\* C20: when monitor_directories returns after the stop request, the observer
\* thread has ended (a handler in flight has run to its end, both inserts
\* issued), and no handler runs afterwards.
C20_HandlersDrainedAtExit ==
    /\ [](pc = "exit" => observer \in {"stopped", "dead"})
    /\ [][pc = "exit" => (Files' = Files /\ Events' = Events /\ last' = last)]_vars

\* C20 witness: monitor_directories has returned after a handler that was in
\* flight at the stop request finished its pair of inserts.
C20_Witness ==
    /\ pc = "exit"
    /\ observer = "stopped"
    /\ last.op \in {"created", "modified", "moved", "deleted"}
    /\ last.outcome = "wrote"
    /\ Len(Files) = Len(Events)

\* The timestamp of a Files row an Event of the given type is about.
RelevantTime(row, event_type) ==
    CASE event_type \in {<<"Scanned in directory">>, <<"Creation">>} -> row.creation_time
      [] event_type = <<"Deletion">> -> row.deletion_time
      [] OTHER -> row.modification_time

\* C22: for every pair of a Files row and its Event written by one invocation,
\* event_time is not before the row's relevant timestamp (creation_time for
\* Scanned and Creation, modification_time for Modified and Renamed,
\* deletion_time for Deletion), which is set; a Scanned Event carries the file's
\* creation time.
C22_EventTimeNotBeforeRecord ==
    [][(Len(Files') = Len(Files) + 1 /\ Len(Events') = Len(Events) + 1) =>
         LET row == Files'[Len(Files')]
             ev  == Events'[Len(Events')]
         IN  /\ ev.file_id = row.file_id
             /\ RelevantTime(row, ev.event_type) # Null
             /\ ev.event_time >= RelevantTime(row, ev.event_type)
             /\ ev.event_type = <<"Scanned in directory">> =>
                    ev.event_time = getctime(row.file_path)
      ]_vars

\* C22 witness: pairs of a scan and of a deletion are in the store, each Event
\* stamped with its row's relevant time.
C22_Witness ==
    /\ last = Call("deleted", "wrote")
    /\ Len(Files) >= 2
    /\ Len(Events) >= 2
    /\ \E e \in EventsOfType(<<"Scanned in directory">>) : \E i \in 1..Len(Files) :
          Files[i].file_id = Events[e].file_id /\ Events[e].event_time = Files[i].creation_time
    /\ \E e \in EventsOfType(<<"Deletion">>) : \E i \in 1..Len(Files) :
          Files[i].file_id = Events[e].file_id /\ Events[e].event_time = Files[i].deletion_time

\* C23: a Created, Modified, MovedTo or Deleted signal whose target is a
\* directory is discarded: no Files row, no Events row, no lookup (no store
\* operation that could fail), the dedup set unchanged, the handler returning
\* normally.
C23_DirectorySignalDiscarded ==
    [][\A p \in SignalPaths, q \in SignalPaths :
         (\/ on_created(TRUE, p, "ok", "h1", "none")
          \/ on_modified(TRUE, p, "ok", "h1", "none")
          \/ on_moved(TRUE, p, q, "ok", "h1", "none")
          \/ on_deleted(TRUE, p, "none")) =>
            /\ Files' = Files
            /\ Events' = Events
            /\ lastrowid' = lastrowid
            /\ faults' = faults
            /\ processed_files' = processed_files
            /\ last'.outcome = "directory"
            /\ observer' # "dead"
      ]_vars

\* C23 witness: a directory signal was discarded although the store holds a row
\* for the signalled path.
C23_Witness ==
    /\ last.outcome = "directory"
    /\ last.op = "deleted"
    /\ select_by_path("r/a") # {}
    /\ processed_files = {}

\* C25: the number of files scan_directory reports (the entries of the list it
\* returns) equals the number of Files rows the scan wrote, for any mix of
\* readable files, unreadable files and failing inserts: every scan step adds
\* as many entries to its result as rows to Files.
C25_ScanCountMatchesRows ==
    [][\A st \in Status, fail \in Fail :
         scan_directory(st, fail) =>
            Len(file_details') - Len(file_details) = Len(Files') - Len(Files)
      ]_vars

\* C26: every Files row written by the scan, on_created, on_modified or on_moved
\* has no deletion time and every row written by on_deleted has one; so after a
\* Modified or MovedTo signal that follows a Deleted one, the newest row of the
\* path is not marked deleted.
C26_DeletionTimeOnlyFromDeleted ==
    [][Files' # Files =>
         LET new == Files'[Len(Files')]
         IN  /\ last'.op \in {"scan", "created", "modified", "moved", "deleted"}
             /\ (last'.op = "deleted") <=> (new.deletion_time # Null)
      ]_vars

\* C26 witness: on_modified wrote a row without deletion time for a path whose
\* previous row is a deletion row.
C26_Witness ==
    /\ last = Call("modified", "wrote")
    /\ Len(Files) >= 2
    /\ Files[Len(Files)].deletion_time = Null
    /\ Files[Len(Files) - 1].deletion_time # Null
    /\ Files[Len(Files) - 1].file_path = Files[Len(Files)].file_path

\* C27: a MovedTo signal (destination readable, store working) whose old
\* basename matches no Files row is dropped: no Files row, no Events row, and
\* the handler returns without raising.
C27_RenameUntrackedDropped ==
    [][\A p \in SignalPaths, q \in SignalPaths, h \in Hashes :
         (/\ on_moved(FALSE, p, q, "ok", h, "none")
          /\ \A i \in 1..Len(Files) : Files[i].filename # basename(p)) =>
            /\ Files' = Files
            /\ Events' = Events
            /\ last' = Call("moved", "miss")
            /\ observer' # "dead"
      ]_vars

\* C27 witness: on_moved found no row with the old basename, in a store that
\* holds rows of other files.
C27_Witness ==
    /\ last = Call("moved", "miss")
    /\ Files # <<>>
    /\ \E p \in SignalPaths : \A i \in 1..Len(Files) : Files[i].filename # basename(p)

\* C28: on_modified does not compare fingerprints: a Modified signal for a
\* tracked, readable path whose content hash equals the stored one still writes
\* one new Files row (with that same hash) and one Modified Event on it; each
\* such signal writes exactly one pair.
C28_ModifiedUnchangedStillWrites ==
    [][\A p \in SignalPaths, h \in Hashes :
         (/\ on_modified(FALSE, p, "ok", h, "none")
          /\ \E i \in 1..Len(Files) : Files[i].file_path = p
          /\ \A i \in 1..Len(Files) : Files[i].file_path = p => Files[i].hash_value = h) =>
            /\ Len(Files') = Len(Files) + 1
            /\ Files'[Len(Files')].file_path = p
            /\ Files'[Len(Files')].hash_value = h
            /\ Len(Events') = Len(Events) + 1
            /\ Events'[Len(Events')].event_type = <<"Modified">>
            /\ Events'[Len(Events')].file_id = Files'[Len(Files')].file_id
      ]_vars

\* C28 witness: two Modified signals with unchanged content have each written a
\* row: the path has three rows with one and the same hash.
C28_Witness ==
    /\ last = Call("modified", "wrote")
    /\ Len(Files) >= 3
    /\ \A i \in 1..Len(Files) :
          /\ Files[i].file_path = Files[1].file_path
          /\ Files[i].hash_value = Files[1].hash_value
    /\ Files[Len(Files)].modification_time # Null
    /\ Files[Len(Files) - 1].modification_time # Null
    /\ Files[Len(Files) - 1].deletion_time = Null

\* C29: file_id and event_id are assigned strictly increasing in the order in
\* which writes are processed: a row (an Event) written by a later invocation
\* has an id greater than every row (Event) written before, so the rows of a
\* path ordered by file_id are in the order their signals were handled.
C29_IdsIncreaseInHandlingOrder ==
    /\ [](/\ \A i, j \in 1..Len(Files) : i < j => Files[i].file_id < Files[j].file_id
          /\ \A i, j \in 1..Len(Events) : i < j => Events[i].event_id < Events[j].event_id)
    /\ [][/\ Len(Files') > Len(Files) =>
               \A i \in 1..Len(Files) : Files[i].file_id < Files'[Len(Files')].file_id
          /\ Len(Events') > Len(Events) =>
               \A e \in 1..Len(Events) : Events[e].event_id < Events'[Len(Events')].event_id
         ]_vars

\* C29 witness: two handlers have written after the scan; the path of the last
\* has rows from both, the later with the greater file_id.
C29_Witness ==
    /\ last = Call("deleted", "wrote")
    /\ Len(Files) >= 3
    /\ Len(Events) >= 3
    /\ Files[Len(Files) - 1].file_path = Files[Len(Files)].file_path
    /\ Files[Len(Files) - 1].modification_time # Null
    /\ Files[Len(Files) - 1].file_id < Files[Len(Files)].file_id
    /\ Events[Len(Events) - 1].event_id < Events[Len(Events)].event_id

\* C30: when no store operation fails, every scan step and every handler that
\* writes inserts exactly one Files row and exactly one Events row, and the
\* Event's file_id (cursor.lastrowid read after the Files insert) is the id of
\* the row inserted by the same invocation.
C30_EventReferencesOwnRow ==
    [][(faults' = 0 /\ (Files' # Files \/ Events' # Events)) =>
         /\ Len(Files') = Len(Files) + 1
         /\ SubSeq(Files', 1, Len(Files)) = Files
         /\ Len(Events') = Len(Events) + 1
         /\ SubSeq(Events', 1, Len(Events)) = Events
         /\ Events'[Len(Events')].file_id = Files'[Len(Files')].file_id
         /\ \A i \in 1..Len(Files) : Files[i].file_id # Events'[Len(Events')].file_id
      ]_vars

\* C30 witness: in a run without store failure a handler wrote its pair after
\* other invocations wrote theirs, and its Event carries the id of its own row.
C30_Witness ==
    /\ faults = 0
    /\ last.outcome = "wrote"
    /\ last.op \in {"created", "modified", "moved", "deleted"}
    /\ Len(Files) = 3
    /\ Len(Events) = 3
    /\ Events[3].file_id = Files[3].file_id
    /\ lastrowid = Events[3].event_id

\* C24: the fingerprint is a function of the bytes alone: whatever the path and
\* however the reads cut the content into chunks, the running checksum is the
\* CRC32 of the bytes read so far and the result is the CRC32 of the whole
\* content (00000000 for an empty file, e8b7be43 for the one byte "a",
\* d202ef8d for one zero byte), written as exactly 8 hexadecimal digits.
C24_ChecksumOfContentAlone ==
    /\ crc = crc32(SubSeq(data, 1, offset), Word({}))
    /\ digest # <<>> =>
         /\ Len(digest) = 8
         /\ \A i \in 1..8 : digest[i] \in 0..15
         /\ digest = format_08x(crc32(data, Word({})))
         /\ data = <<>> => digest = <<0, 0, 0, 0, 0, 0, 0, 0>>
         /\ data = <<97>> => digest = <<14, 8, 11, 7, 11, 14, 4, 3>>
         /\ data = <<0>> => digest = <<13, 2, 0, 2, 14, 15, 8, 13>>

\* C24 witness: a file read in more than one chunk has got its fingerprint.
C24_Witness ==
    /\ digest # <<>>
    /\ Len(data) > ChunkSize
    /\ opened = "r/b"

\* C21: the steps of a handler (lookup, Files insert, read of the new id from
\* the shared cursor, Events insert) are never interleaved with those of
\* another handler for the same path: no two invocations for one path are in
\* progress at once, the id a handler reads from cursor.lastrowid is that of
\* the row it has just inserted, and the record it looked up is still the one
\* the lookup gives when it inserts.
C21_OneHandlerPerPathAtATime ==
    /\ \A i, j \in 1..Len(running) :
          i # j => running[i].path # running[j].path
    /\ \A k \in 1..Len(running) :
          /\ (running[k].at = "insert_file" /\ running[k].op # "created") =>
                running[k].result = fetchone(select_by_path(running[k].path))
          /\ running[k].at = "lastrowid" => lastrowid = running[k].row
          /\ running[k].at = "insert_event" => running[k].file_id = running[k].row

\* C21 witness: a handler is between its Files insert and its Events insert
\* while the next signal for the same path waits in the queue.
C21_Witness ==
    /\ Len(running) = 1
    /\ running[1].at = "insert_event"
    /\ queue # <<>>
    /\ queue[1].path = running[1].path

\* Creation Events among the rows of an Events table.
CreationEvents(E) == {e \in 1..Len(E) : E[e].event_type = <<"Creation">>}

\* C31: the dedup set only grows, and only on_created changes it: a Modified,
\* MovedTo or Deleted signal leaves it as it was.  So a step writes a Creation
\* Event only while entering a path that was not yet in the set (at most one
\* Creation Event per path and session), and a Created signal for a path that
\* was created and then deleted or moved away writes nothing.
C31_DedupSetOnlyCreated ==
    /\ [](Cardinality(CreationEvents(Events)) <= Cardinality(processed_files))
    /\ [][/\ processed_files \subseteq processed_files'
          /\ processed_files' # processed_files => last'.op = "created"
          /\ last'.op \in {"scan", "modified", "moved", "deleted", "stop"} =>
                processed_files' = processed_files
          /\ CreationEvents(Events') # CreationEvents(Events) =>
                /\ Cardinality(CreationEvents(Events')) =
                      Cardinality(CreationEvents(Events)) + 1
                /\ \E p \in SignalPaths :
                      /\ p \notin processed_files
                      /\ processed_files' = processed_files \cup {p}
          /\ (last'.op = "created" /\ processed_files' = processed_files) =>
                (Files' = Files /\ Events' = Events)
         ]_vars

\* C31 witness: a Created signal was discarded by the guard for a path whose
\* Creation row of this session is followed by a Deletion row.
C31_Witness ==
    /\ last = Call("created", "duplicate")
    /\ \E i, j \in 1..Len(Files) :
         /\ i < j
         /\ Files[i].file_path = Files[j].file_path
         /\ Files[i].file_path \in processed_files
         /\ i \in CreationRows(Files[i].file_path)
         /\ EventsOn(Files[i].file_id) \cap EventsOfType(<<"Creation">>) # {}
         /\ Files[j].deletion_time # Null
         /\ EventsOn(Files[j].file_id) \cap EventsOfType(<<"Deletion">>) # {}

\* Deletion rows of path p.
DeletionRows(p) ==
    {i \in 1..Len(Files) : Files[i].file_path = p /\ Files[i].deletion_time # Null}

\* C32: a Deleted signal for a file path with at least one Files row writes
\* (store working) one more Deletion row and its Deletion Event, whether or not
\* the path already has Deletion rows: each further signal adds a further pair.
C32_DeletedNotDeduplicated ==
    [][last'.op = "deleted" =>
       \A p \in SignalPaths :
         (on_deleted(FALSE, p, "none") /\ select_by_path(p) # {}) =>
            /\ Len(Files') = Len(Files) + 1
            /\ Files'[Len(Files')].file_path = p
            /\ Files'[Len(Files')].deletion_time # Null
            /\ Len(Events') = Len(Events) + 1
            /\ Events'[Len(Events')].event_type = <<"Deletion">>
            /\ Events'[Len(Events')].file_id = Files'[Len(Files')].file_id
            /\ last'.outcome = "wrote"
      ]_vars

\* C32 witness: a second Deleted signal for a path has written a second
\* Deletion row right after the first.
C32_Witness ==
    /\ last = Call("deleted", "wrote")
    /\ \E p \in SignalPaths :
         /\ Cardinality(DeletionRows(p)) = 2
         /\ {Len(Files) - 1, Len(Files)} \subseteq DeletionRows(p)
         /\ Cardinality(EventsOfType(<<"Deletion">>)) = 2

\* C33: the scan leaves the dedup set alone, so the set is empty when the
\* observer starts; the first Created signal of the session for a readable file
\* path that has a Scanned row passes the guard and (store working) writes a
\* second Files row of that path, without modification time, and a Creation
\* Event referencing it.
C33_ScanDoesNotSeedDedup ==
    /\ [](pc = "scan" => processed_files = {})
    /\ [][/\ last'.op = "scan" => processed_files' = processed_files
          /\ last'.op = "created" =>
             \A p \in SignalPaths, h \in Hashes :
               (/\ on_created(FALSE, p, "ok", h, "none")
                /\ p \notin processed_files
                /\ ScannedRows(p) # {}) =>
                  /\ Len(Files') = Len(Files) + 1
                  /\ Files'[Len(Files')].file_path = p
                  /\ Files'[Len(Files')].modification_time = Null
                  /\ Files'[Len(Files')].deletion_time = Null
                  /\ Files'[Len(Files')].hash_value = h
                  /\ Len(Events') = Len(Events) + 1
                  /\ Events'[Len(Events')].event_type = <<"Creation">>
                  /\ Events'[Len(Events')].file_id = Files'[Len(Files')].file_id
                  /\ p \in processed_files'
         ]_vars

\* C33 witness: on_created has written a Creation row for a path that the scan
\* of this session recorded.
C33_Witness ==
    /\ last = Call("created", "wrote")
    /\ \E p \in SignalPaths :
         /\ ScannedRows(p) # {}
         /\ Len(Files) \in CreationRows(p)
         /\ Len(Files) \notin ScannedRows(p)
         /\ EventsOn(Files[Len(Files)].file_id) \cap EventsOfType(<<"Creation">>) # {}
         /\ \E k \in 1..Len(file_details) : file_details[k] = p

====
